---- MODULE Spec2Model ----
(***************************************************************************)
(* Lineup optimizer of janmacro/vm.                                        *)
(*                                                                         *)
(*   compute_best_lineup            src/app/services/optimizer.py          *)
(*   enumerate_top_k_by_congestion  src/optimizer/lineup.py                *)
(*                                                                         *)
(* One behaviour is one call of one of the two functions.  The arguments   *)
(* of the call are drawn in Init.  Every ILP solve of the code is one      *)
(* action: the solver's model is the set of 0/1 matrices x[(s, slot)] that *)
(* satisfy the constraints the code adds, CBC answers OPTIMAL with any     *)
(* minimiser/maximiser of the objective when that set is non-empty and     *)
(* INFEASIBLE otherwise.  The points table is integer valued               *)
(* (src/app/models.py:71), so int(round(v)) of an objective value is v.    *)
(***************************************************************************)
EXTENDS Integers, Sequences, FiniteSets, TLC

\* ------------------------------------------------------------------ bounds
MaxSwimmers == 3
MaxPoints == 1
MaxRaces == 3
MaxTopK == 2
MaxEntries == 3

\* ------------------------------------------------------- input universes
None == "None"

\* Three members of the Event enum (src/app/models.py), enough for a
\* schedule in which an event occurs in several segments.
Events == {"FL_50", "FR_200", "BR_100"}

\* Schedules in the shape of SEGMENT_CATALOG: an ordered list of segments,
\* each an ordered list of event occurrences.
Schedules ==
    { << <<"FL_50", "FR_200", "BR_100">> >>,
      << <<"FL_50", "FR_200">>, <<"FL_50", "BR_100">> >>,
      << <<"FL_50", "FR_200", "BR_100", "FL_50">> >>,
      << <<"FL_50", "FR_200", "BR_100">>, <<"FR_200">>, <<"BR_100">>, <<"FL_50">> >> }

\* Swimmers are opaque identifiers; a roster is a list of distinct ones.
SwimmerIds == <<"S1", "S2", "S3", "S4", "S5">>

Rosters == { SubSeq(SwimmerIds, 1, n) : n \in 1..MaxSwimmers }

Range(f) == { f[i] : i \in DOMAIN f }

RECURSIVE SumUpTo(_, _)
SumUpTo(f, n) == IF n = 0 THEN 0 ELSE f[n] + SumUpTo(f, n - 1)

\* A points table is a partial map (swimmer, event) -> positive integer
\* (the routes leave out a swimmer's events without points).  One row per
\* swimmer; rows are listed in non-increasing order so that rosters equal up
\* to renaming the swimmers are drawn once.  A table has at most MaxEntries
\* entries.
Rows == [Events -> 0..MaxPoints]

RowKey(r) == r["FL_50"] * (MaxPoints + 1) * (MaxPoints + 1)
             + r["FR_200"] * (MaxPoints + 1) + r["BR_100"]

PointTables(roster) ==
  { tbl \in
    { [p \in { q \in Range(roster) \X Events :
                 \E i \in 1..Len(roster) : roster[i] = q[1] /\ rows[i][q[2]] > 0 }
          |-> LET i == CHOOSE j \in 1..Len(roster) : roster[j] = p[1]
              IN  rows[i][p[2]]] :
      rows \in { rr \in [1..Len(roster) -> Rows] :
                   \A i \in 2..Len(roster) : RowKey(rr[i - 1]) >= RowKey(rr[i]) } } :
    Cardinality(DOMAIN tbl) <= MaxEntries }

VARIABLES
    entry,                  \* which function is called
    swimmers,               \* argument: roster (list of swimmer ids)
    points,                 \* argument: points table
    segments,               \* argument: schedule
    max_races_per_swimmer,  \* argument
    enforce_adjacent_rest,  \* argument (compute_best_lineup)
    top_k,                  \* argument (enumerate_top_k_by_congestion)
    congestion_window_sizes, \* argument (enumerate_top_k_by_congestion)
    congestion_weights,     \* argument, after None is replaced by {3: 2, 4: 1}
    pc,                     \* position in the called function
    slots,                  \* flat slot list [(slot, seg_idx, ev)]
    seg_offsets,            \* first global slot index of each segment
    events_present,         \* set of the events of the slots
    solvers,                \* solvers created so far, in order
    solves,                 \* (solver, status) of every Solve() so far
    solver_fault,           \* environment: what CBC may do wrong, "none" if nothing
    best_points,            \* result of pass 1
    max_used,               \* result of pass 2
    min_max_total,          \* result of pass 3
    x4,                     \* solution values of the last solved model
    ranked,                 \* enumerate_top_k_by_congestion: result list
    cuts,                   \* enumerate_top_k_by_congestion: no-good cuts added
    assignment,             \* compute_best_lineup: returned lineup
    error,                  \* exception raised, or None
    route,                  \* the view handling the request, "none" outside a request
    method,                 \* request.method
    form,                   \* request.form (None for a field that is absent)
    current_user,           \* id of the logged-in user
    db,                     \* rows of the swimmers table with their PBs
    route_pc,               \* position in the view
    route_segments,         \* the view's local  segments
    route_swimmers,         \* the view's local  swimmers / swimmers_for_gender
    errors,                 \* the view's local  errors
    solution                \* the view's local  solution

vars == << entry, swimmers, points, segments, max_races_per_swimmer,
           enforce_adjacent_rest, top_k, congestion_window_sizes,
           congestion_weights, pc, slots, seg_offsets,
           events_present, solvers, solves, solver_fault,
           best_points, max_used, min_max_total, x4, ranked, cuts,
           assignment, error, route, method, form, current_user, db,
           route_pc, route_segments, route_swimmers, errors, solution >>

\* state of the request being served
web == << route, method, form, current_user, db, route_pc, route_segments,
         route_swimmers, errors, solution >>

locals == << slots, seg_offsets, events_present >>

results == << best_points, max_used, min_max_total >>

outputs == << x4, ranked, cuts, assignment >>

args == << entry, swimmers, points, segments, max_races_per_swimmer,
           enforce_adjacent_rest, top_k, congestion_window_sizes,
           congestion_weights, solver_fault, web >>

\* ------------------------------------------------------------ helpers
Max2(a, b) == IF a >= b THEN a ELSE b

SetMax(T) == CHOOSE m \in T : \A n \in T : n <= m

SetMin(T) == CHOOSE m \in T : \A n \in T : m <= n

\* dict.get((s, ev), 0.0)
PointsGet_MissingPenalised(s, ev) ==
    IF <<s, ev>> \in DOMAIN points THEN points[<<s, ev>>] ELSE 0 - 1

PointsGet(s, ev) == IF <<s, ev>> \in DOMAIN points THEN points[<<s, ev>>] ELSE 0

S == Len(swimmers)

NumSlots == Len(slots)

SlotIds == 0..(NumSlots - 1)

SegIdx(slot) == slots[slot + 1][2]

EventOf(slot) == slots[slot + 1][3]

SegLen(g) == Len(segments[g + 1])

Base(g) == seg_offsets[g + 1]

SegIds == { g - 1 : g \in 1..Len(segments) }

seg_lengths == [g \in 1..Len(segments) |-> Len(segments[g])]

Nmax == IF Len(segments) = 0 THEN 0 ELSE SetMax(Range(seg_lengths))

BIG == max_races_per_swimmer

\* ---- Build flat slot list and segment base offsets ----
RECURSIVE FlattenSlots(_, _, _)
FlattenSlots(segs, g, acc) ==
    IF g > Len(segs) THEN acc
    ELSE FlattenSlots(segs, g + 1,
             acc \o [i \in 1..Len(segs[g]) |-> <<Len(acc) + i - 1, g - 1, segs[g][i]>>])

RECURSIVE Offsets(_, _, _, _)
Offsets(segs, g, running, acc) ==
    IF g > Len(segs) THEN acc
    ELSE Offsets(segs, g + 1, running + Len(segs[g]), Append(acc, running))

\* ------------------------------------------------- decision variables
\* x[slot][s] is the code's BoolVar x[(s, slot)]: one 0/1 column per slot.
Columns == [Range(swimmers) -> {0, 1}]

\* Sum(x[(s, slot)] for s in swimmers)
ColSum(col) == Cardinality({ i \in 1..S : col[swimmers[i]] = 1 })

\* solver.Add(Sum(x[(s, slot)] for s in swimmers) == 1)
Coverage(col) == ColSum(col) = 1

\* Sum(x[(s, slot)] for (slot, _, _) in slots)
Races(x, s) == Cardinality({ t \in SlotIds : x[t][s] = 1 })

\* faulty variant: the cap off by one
Capacity_OffByOne(x) == \A i \in 1..S : Races(x, swimmers[i]) <= max_races_per_swimmer + 1

\* solver.Add(Sum(x[(s, slot)] for slots) <= max_races_per_swimmer)
Capacity(x) == \A i \in 1..S : Races(x, swimmers[i]) <= max_races_per_swimmer

\* faulty variant: the event counted per segment instead of across segments
NoDuplicateEvent_PerSegment(x) ==
    \A i \in 1..S : \A ev \in events_present : \A g \in SegIds :
        Cardinality({ t \in SlotIds : /\ SegIdx(t) = g
                                      /\ EventOf(t) = ev
                                      /\ x[t][swimmers[i]] = 1 }) <= 1

\* solver.Add(Sum(x[(s, slot)] for slots if ev2 == ev) <= 1)
NoDuplicateEvent(x) ==
    \A i \in 1..S : \A ev \in events_present :
        Cardinality({ t \in SlotIds : EventOf(t) = ev /\ x[t][swimmers[i]] = 1 }) <= 1

\* faulty variant: the global slot index used as the local one
HasNextInSegment_NoBase(slot) == slot + 1 < SegLen(SegIdx(slot))

\* local = slot - base;  local + 1 < seg_len
HasNextInSegment(slot) == (slot - Base(SegIdx(slot))) + 1 < SegLen(SegIdx(slot))

\* solver.Add(x[(s, slot)] + x[(s, slot + 1)] <= 1)
HardRest(x) ==
    \A slot \in SlotIds : HasNextInSegment(slot) =>
        \A i \in 1..S : x[slot][swimmers[i]] + x[slot + 1][swimmers[i]] <= 1

\* the hard constraints every pass rebuilds
HardConstraints(x, rest) ==
    /\ Capacity(x)
    /\ rest => HardRest(x)
    /\ NoDuplicateEvent(x)

\* 0/1 matrices that satisfy coverage in every column
Covered ==
    LET cols == { col \in Columns : Coverage(col) }
    IN  IF Cardinality(cols) = 0 THEN [SlotIds -> {}] ELSE [SlotIds -> cols]

\* Sum(points.get((s, ev), 0.0) * x[(s, slot)] for s, slot)
RECURSIVE SlotPoints(_, _, _)
SlotPoints(x, k, i) ==
    IF i = 0 THEN 0
    ELSE PointsGet(swimmers[i], slots[k][3]) * x[slots[k][1]][swimmers[i]]
         + SlotPoints(x, k, i - 1)

RECURSIVE PointsUpTo(_, _)
PointsUpTo(x, k) ==
    IF k = 0 THEN 0 ELSE SlotPoints(x, k, S) + PointsUpTo(x, k - 1)

TotalPoints(x) == PointsUpTo(x, NumSlots)

\* faulty variant: used[s] without the link  races >= used[s]
UsedValues_Unlinked(x, s) == { u \in {0, 1} : Races(x, s) <= BIG * u }

\* used[s] values allowed by  races <= BIG * used[s]  and  races >= used[s]
UsedValues(x, s) ==
    { u \in {0, 1} : Races(x, s) <= BIG * u /\ Races(x, s) >= u }

\* values Sum(used[s] for s in swimmers) can take for a given x
RECURSIVE UsedSums(_, _)
UsedSums(x, i) ==
    IF i = 0 THEN {0}
    ELSE { a + u : a \in UsedSums(x, i - 1), u \in UsedValues(x, swimmers[i]) }

\* faulty variant: the points lock as an upper bound
PointsLocked_AtMost(x) == TotalPoints(x) <= best_points

\* solver.Add(tot == best_points)
PointsLocked(x) == TotalPoints(x) = best_points

\* faulty variant: the swimmers-used lock as an upper bound
UsedLocked_AtMost(x) == \E u \in UsedSums(x, S) : u <= max_used

\* used[s] linked to the race counts;  solver.Add(Sum(used[s]) == max_used)
UsedLocked(x) == max_used \in UsedSums(x, S)

\* faulty variant: pass 4 keeps only the cap, not the pass-3 ceiling
MinimaxCeiling_CapOnly(x) == \A i \in 1..S : Races(x, swimmers[i]) <= max_races_per_swimmer

\* solver4.Add(y <= min_max_total)  # preserve global minimax
MinimaxCeiling(x) == \A i \in 1..S : Races(x, swimmers[i]) <= min_max_total

\* ---- PASS 1 model ----
Model1 == { x \in Covered : HardConstraints(x, enforce_adjacent_rest) }

\* ---- PASS 2 model: points fixed ----
Model2 ==
    { x \in Covered : /\ HardConstraints(x, enforce_adjacent_rest)
                      /\ PointsLocked(x)
                      /\ UsedSums(x, S) # {} }

\* ---- PASS 3 model: points and #used fixed; y3[s] <= Mtot, Mtot in 0..max ----
MtotValues(x) ==
    { m \in 0..max_races_per_swimmer : \A i \in 1..S : Races(x, swimmers[i]) <= m }

Model3 ==
    { x \in Covered : /\ HardConstraints(x, enforce_adjacent_rest)
                      /\ PointsLocked(x)
                      /\ UsedLocked(x)
                      /\ MtotValues(x) # {} }

\* ---- PASS 4 terms ----
\* A) z = 1 exactly when the swimmer has slot and slot + 1 of one segment
\*    (z >= a + b - 1, z <= a, z <= b)
AdjValues(x, s, slot) ==
    { z \in {0, 1} : /\ z >= x[slot][s] + x[slot + 1][s] - 1
                     /\ z <= x[slot][s]
                     /\ z <= x[slot + 1][s] }

\* least value of Sum(z0_list) for a given x
V_adj(x) ==
    Cardinality({ p \in (1..S) \X SlotIds :
                    /\ HasNextInSegment(p[2])
                    /\ SetMin(AdjValues(x, swimmers[p[1]], p[2])) = 1 })

\* B) windows base+i, base+i+1, base+i+2 with i in range(N - 2), N >= 3
HasWindow3(slot) ==
    /\ SegLen(SegIdx(slot)) >= 3
    /\ (slot - Base(SegIdx(slot))) < SegLen(SegIdx(slot)) - 2

\* count == x[base+i] + x[base+i+1] + x[base+i+2]
Count3(x, s, slot) == x[slot][s] + x[slot + 1][s] + x[slot + 2][s]

\* faulty variant: one unit per window, however many slots are taken
ExcValues_PerWindow(x, s, slot) == { e \in 0..2 : 2 * e >= Count3(x, s, slot) - 1 }

\* exc in 0..2, exc >= count - 1
ExcValues(x, s, slot) == { e \in 0..2 : e >= Count3(x, s, slot) - 1 }

RECURSIVE SumExc(_, _, _)
SumExc(x, i, slot) ==
    IF i = 0 THEN 0
    ELSE IF slot = NumSlots THEN SumExc(x, i - 1, 0)
    ELSE (IF HasWindow3(slot) THEN SetMin(ExcValues(x, swimmers[i], slot)) ELSE 0)
         + SumExc(x, i, slot + 1)

\* least value of Sum(z1_list) for a given x
V_gap1(x) == SumExc(x, S, 0)

\* C) y_seg[(s, g)] == Sum(x[(s, base + i)] for i in range(N)), in 0..len(seg)
YSeg(x, s, g) ==
    Cardinality({ i \in 0..(SegLen(g) - 1) : x[Base(g) + i][s] = 1 })

\* Mseg in 0..Nmax with y_seg <= Mseg for every (s, g)
MsegValues(x) ==
    { m \in 0..Nmax : \A i \in 1..S : \A g \in SegIds : YSeg(x, swimmers[i], g) <= m }

\* D) only if 4 segments: day 1 = segments 0 and 1, day 2 = segments 2 and 3
has_two_days == Len(segments) = 4

D1(x, s) == Cardinality({ t \in SlotIds : SegIdx(t) \in {0, 1} /\ x[t][s] = 1 })

D2(x, s) == Cardinality({ t \in SlotIds : SegIdx(t) \in {2, 3} /\ x[t][s] = 1 })

\* faulty variant: delta bounded one below the pass-3 optimum
DeltaValues_TightBound(x, s) ==
    { d \in 0..(min_max_total - 1) : d >= D1(x, s) - D2(x, s) /\ d >= D2(x, s) - D1(x, s) }

\* delta[s] in 0..min_max_total, delta >= d1 - d2, delta >= d2 - d1
DeltaValues(x, s) ==
    { d \in 0..min_max_total : d >= D1(x, s) - D2(x, s) /\ d >= D2(x, s) - D1(x, s) }

\* D in 0..min_max_total with delta[s] <= D for every s
DValues(x) ==
    { d \in 0..min_max_total :
          \A i \in 1..S : \E e \in DeltaValues(x, swimmers[i]) : e <= d }

\* ---- Lexicographic weights ----
UB_adj == SumUpTo([g \in 1..Len(segments) |-> Max2(0, seg_lengths[g] - 1)], Len(segments)) * S

\* faulty variant: one unit per 3-slot window, although exc ranges over 0..2
UB_gap1_OnePerWindow ==
    SumUpTo([g \in 1..Len(segments) |-> Max2(0, seg_lengths[g] - 2)], Len(segments)) * S

UB_gap1 ==
    SumUpTo([g \in 1..Len(segments) |-> Max2(0, seg_lengths[g] - 2) * 2], Len(segments)) * S

UB_Mseg == IF Nmax > 0 THEN Nmax ELSE 1

UB_D == IF has_two_days THEN min_max_total ELSE 0

W2 == IF has_two_days THEN UB_D + 1 ELSE 1

W1 == IF has_two_days THEN UB_Mseg * W2 + UB_D + 1 ELSE UB_Mseg + 1

W0 == IF has_two_days THEN UB_gap1 * W1 + UB_Mseg * W2 + UB_D + 1
      ELSE UB_gap1 * W1 + UB_Mseg + 1

\* ---- PASS 4 model: hard constraints, locks, bounds of the auxiliaries ----
\* faulty variant: pass 4 built without the locks of passes 1 to 3
Model4_NoLocks ==
    { x \in Covered : /\ HardConstraints(x, enforce_adjacent_rest)
                      /\ MsegValues(x) # {}
                      /\ has_two_days => DValues(x) # {} }

Model4 ==
    { x \in Covered : /\ HardConstraints(x, enforce_adjacent_rest)
                      /\ PointsLocked(x)
                      /\ UsedLocked(x)
                      /\ MinimaxCeiling(x)
                      /\ MsegValues(x) # {}
                      /\ has_two_days => DValues(x) # {} }

\* faulty variant: the plain sum of the terms, without the weights
Objective4_Unweighted(x) ==
    V_adj(x) + V_gap1(x) + SetMin(MsegValues(x))
    + (IF has_two_days THEN SetMin(DValues(x)) ELSE 0)

\* least objective value the auxiliaries allow for a given x
Objective4(x) ==
    W0 * V_adj(x) + W1 * V_gap1(x) + W2 * SetMin(MsegValues(x))
    + (IF has_two_days THEN SetMin(DValues(x)) ELSE 0)

\* ---- Extract final assignment ----
\* first swimmer of the roster whose variable exceeds 0.5
RECURSIVE Chosen(_, _)
Chosen(col, i) ==
    IF i > S THEN None
    ELSE IF 2 * col[swimmers[i]] > 1 THEN swimmers[i]
    ELSE Chosen(col, i + 1)

\* faulty variant: the last slot is left out of the returned list
Extract_SkipsLast(x) ==
    [k \in 1..(NumSlots - 1) |->
        LET chosen == Chosen(x[slots[k][1]], 1)
        IN  << slots[k][1], slots[k][2], slots[k][3], chosen,
               IF chosen # None THEN PointsGet(chosen, slots[k][3]) ELSE 0 >>]

\* assignment.append((slot, seg_idx, ev, chosen, pts)) for every slot
Extract(x) ==
    [k \in 1..NumSlots |->
        LET chosen == Chosen(x[slots[k][1]], 1)
        IN  << slots[k][1], slots[k][2], slots[k][3], chosen,
               IF chosen # None THEN PointsGet(chosen, slots[k][3]) ELSE 0 >>]

\* =====================================================================
\* enumerate_top_k_by_congestion (src/optimizer/lineup.py)
\* =====================================================================
\* congestion_window_sizes: Tuple[int, ...] = (3, 4)
DefaultWindowSizes == <<3, 4>>

\* if congestion_weights is None: congestion_weights = {3: 2, 4: 1}
DefaultWeights == [L \in {3, 4} |-> IF L = 3 THEN 2 ELSE 1]

\* faulty variant: a window size without an entry gets weight 0
WeightOf_MissingIsZero(L) ==
    IF congestion_weights = << >> THEN 1
    ELSE IF L \in DOMAIN congestion_weights THEN congestion_weights[L] ELSE 0

\* w = congestion_weights.get(L, 1) if congestion_weights else 1
WeightOf(L) ==
    IF congestion_weights = << >> THEN 1
    ELSE IF L \in DOMAIN congestion_weights THEN congestion_weights[L] ELSE 1

\* windows (s, seg_idx, start, L, k) the congestion objective has a term
\* for; L is the k-th entry of congestion_window_sizes
CongestionWindows ==
    { w \in Range(swimmers) \X SegIds \X (0..Nmax) \X Range(congestion_window_sizes)
             \X DOMAIN congestion_window_sizes :
          /\ w[4] = congestion_window_sizes[w[5]]
          /\ ~(w[4] <= 1 \/ w[4] > SegLen(w[2]))
          /\ w[3] < SegLen(w[2]) - w[4] + 1 }

\* count == Sum(x2[(s, sl)] for sl in window_slots)
WindowCount(x, w) ==
    Cardinality({ i \in 0..(w[4] - 1) : x[Base(w[2]) + w[3] + i][w[1]] = 1 })

\* excess in 0..L-1, excess >= count - 1
ExcessValues(x, w) == { e \in 0..(w[4] - 1) : e >= WindowCount(x, w) - 1 }

\* least value of Sum(penalty_terms) for a given x
RECURSIVE SumPenalty(_, _)
SumPenalty(T, x) ==
    IF T = {} THEN 0
    ELSE LET w == CHOOSE q \in T : TRUE
         IN  WeightOf(w[4]) * SetMin(ExcessValues(x, w)) + SumPenalty(T \ {w}, x)

total_penalty(x) == SumPenalty(CongestionWindows, x)

\* Sum(x2[(s, slot)] for (slot, _, _, s, _) in assignment)
CutSum(x, lineup) ==
    Cardinality({ k \in 1..Len(lineup) : x[lineup[k][1]][lineup[k][4]] = 1 })

\* faulty variant: the enumerator builds its models without the rest constraint
TopKHardRest_Skipped(x) == TRUE

\* 4) Hard rest, added without a flag:
\* if local_pos + 1 < seg_len: solver.Add(x[(s, slot)] + x[(s, next_slot)] <= 1)
TopKHardRest(x) ==
    \A slot \in SlotIds :
        (slot - seg_offsets[SegIdx(slot) + 1]) + 1 < Len(segments[SegIdx(slot) + 1]) =>
            \A i \in 1..S : x[slot][swimmers[i]] + x[slot + 1][swimmers[i]] <= 1

\* constraints 1) to 4) of the enumerator, the same in both of its models
TopKHardConstraints(x) ==
    /\ Capacity(x)
    /\ TopKHardRest(x)
    /\ NoDuplicateEvent(x)

\* PASS 1 model of the enumerator: hard rest is unconditional
TopKModel1 == { x \in Covered : TopKHardConstraints(x) }

\* faulty variant: the cut also forbids the lineups that differ in one slot
NoGoodCut_OneTooFew(x, lineup) == CutSum(x, lineup) <= NumSlots - 2

\* faulty variant: the cut allows all N variables of the lineup again
NoGoodCut_OffByOne(x, lineup) == CutSum(x, lineup) <= NumSlots

\* solver2.Add(Sum(...) <= N - 1)
NoGoodCut(x, lineup) == CutSum(x, lineup) <= NumSlots - 1

\* faulty variant: the points of the enumerated lineups only bounded above
TopKPointsLocked_AtMost(x) == TotalPoints(x) <= best_points

\* solver2.Add(total_points2 == int(best_points)); best_points is the
\* objective value of an integer table, int() leaves it unchanged
TopKPointsLocked(x) == TotalPoints(x) = best_points

\* PASS 2 model: same constraints, points fixed, the cuts added so far
TopKModel2 ==
    { x \in Covered : /\ TopKHardConstraints(x)
                      /\ TopKPointsLocked(x)
                      /\ \A c \in Range(cuts) : NoGoodCut(x, c) }

\* =====================================================================
\* state machine
\* =====================================================================
\* the state at the call, for any behaviour of the solver
\* solution = None: the view has no solution to render
NoSolution == << >>

\* the function is called directly, no request is being served
NoRequest ==
    /\ route = "none"
    /\ method = None
    /\ form = None
    /\ current_user = None
    /\ db = << >>
    /\ route_pc = "none"
    /\ route_segments = << >>
    /\ route_swimmers = << >>
    /\ errors = << >>
    /\ solution = NoSolution

Called ==
    /\ NoRequest
    /\ entry \in {"compute_best_lineup", "enumerate_top_k_by_congestion"}
    /\ swimmers \in Rosters
    /\ points \in PointTables(swimmers)
    /\ segments \in Schedules
    /\ max_races_per_swimmer \in 1..MaxRaces
    /\ enforce_adjacent_rest \in
           IF entry = "compute_best_lineup" THEN BOOLEAN ELSE {TRUE}
    /\ top_k \in IF entry = "compute_best_lineup" THEN {0} ELSE 1..MaxTopK
    /\ pc = "call"
    /\ slots = << >>
    /\ seg_offsets = << >>
    /\ events_present = {}
    /\ solvers = << >>
    /\ solves = << >>
    /\ best_points = None
    /\ max_used = None
    /\ min_max_total = None
    /\ x4 = None
    /\ ranked = << >>
    /\ cuts = << >>
    /\ assignment = None
    /\ error = None

\* the congestion arguments are left at their defaults
DefaultCongestion ==
    /\ congestion_window_sizes = DefaultWindowSizes
    /\ congestion_weights = DefaultWeights

\* CBC proves optimality or infeasibility of every model (no time limit is
\* set) and returns 0/1 values
Init == Called /\ solver_fault = "none" /\ DefaultCongestion

\* both functions: flat slot list and segment offsets
BuildSlots ==
    /\ pc = "call"
    /\ slots' = FlattenSlots(segments, 1, << >>)
    /\ seg_offsets' = Offsets(segments, 1, 0, << >>)
    /\ events_present' = { slots'[k][3] : k \in 1..Len(slots') }
    /\ pc' = IF entry = "compute_best_lineup" THEN "pass1" ELSE "check"
    /\ UNCHANGED << args, solvers, solves, results, outputs, error >>

\* result status of Solve(): INFEASIBLE for an empty model; OPTIMAL for a
\* non-empty one, or, when the solver ends without a proof (solver_fault =
\* "status"), FEASIBLE or ABNORMAL
SolveStatuses(feasible) ==
    IF ~feasible THEN {"INFEASIBLE"}
    ELSE {"OPTIMAL"} \cup (IF solver_fault = "status" THEN {"FEASIBLE", "ABNORMAL"} ELSE {})

\* faulty variant: only an infeasible model counts as a failure
NotOptimal_OnlyInfeasible(status) == status = "INFEASIBLE"

\* solver.Solve() != pywraplp.Solver.OPTIMAL
NotOptimal(status) == status # "OPTIMAL"

\* solution_value() of the variables after an OPTIMAL solve: the optimiser
\* x, or, when the solver returns bad values (solver_fault = "values"), x
\* with no value above 0.5 in the column of one slot
SolutionValues(x) ==
    {x} \cup (IF solver_fault = "values"
              THEN { [x EXCEPT ![t] = [s \in Range(swimmers) |-> 0]] : t \in SlotIds }
              ELSE {})

\* faulty variant: a later pass keeps mutating the solver of the pass before
CreateSolver_Reused(name) ==
    Append(solvers, IF solvers = << >> THEN name ELSE solvers[Len(solvers)])

\* solverK = pywraplp.Solver.CreateSolver("CBC"): a new, empty solver
CreateSolver(name) == Append(solvers, name)

Raise(msg) ==
    /\ error' = msg
    /\ pc' = "raised"

\* ---- PASS 1: maximize total points ----
Pass1 ==
    /\ pc = "pass1"
    /\ solvers' = CreateSolver("solver1")
    /\ \E values \in { { TotalPoints(x) : x \in Model1 } } :
       \E status \in SolveStatuses(values # {}) :
           /\ solves' = Append(solves, <<"solver1", status>>)
           /\ IF NotOptimal(status)
              THEN Raise("First pass failed") /\ UNCHANGED best_points
              ELSE /\ best_points' = SetMax(values)
                   /\ pc' = "pass2"
                   /\ UNCHANGED error
    /\ UNCHANGED << args, locals, max_used, min_max_total, outputs >>

\* ---- PASS 2: maximize number of swimmers used (points fixed) ----
Pass2 ==
    /\ pc = "pass2"
    /\ solvers' = CreateSolver("solver2")
    /\ \E values \in { UNION { UsedSums(x, S) : x \in Model2 } } :
       \E status \in SolveStatuses(values # {}) :
           /\ solves' = Append(solves, <<"solver2", status>>)
           /\ IF NotOptimal(status)
              THEN Raise("Second pass failed") /\ UNCHANGED max_used
              ELSE /\ max_used' = SetMax(values)
                   /\ pc' = "pass3"
                   /\ UNCHANGED error
    /\ UNCHANGED << args, locals, best_points, min_max_total, outputs >>

\* ---- PASS 3: minimize max total races per swimmer ----
Pass3 ==
    /\ pc = "pass3"
    /\ solvers' = CreateSolver("solver3")
    /\ \E values \in { UNION { MtotValues(x) : x \in Model3 } } :
       \E status \in SolveStatuses(values # {}) :
           /\ solves' = Append(solves, <<"solver3", status>>)
           /\ IF NotOptimal(status)
              THEN Raise("Third pass failed") /\ UNCHANGED min_max_total
              ELSE /\ min_max_total' = SetMin(values)
                   /\ pc' = "pass4"
                   /\ UNCHANGED error
    /\ UNCHANGED << args, locals, best_points, max_used, outputs >>

\* ---- PASS 4: spacing; CBC returns any minimiser of the weighted sum.
\* ---- The final assignment is extracted from it and returned.
Pass4 ==
    /\ pc = "pass4"
    /\ solvers' = CreateSolver("solver4")
    /\ \E scored \in { { <<Objective4(x), x>> : x \in Model4 } } :
       \E status \in SolveStatuses(scored # {}) :
           /\ solves' = Append(solves, <<"solver4", status>>)
           /\ IF NotOptimal(status)
              THEN /\ Raise("Fourth pass failed")
                   /\ UNCHANGED << x4, assignment >>
              ELSE /\ \E best \in { SetMin({ p[1] : p \in scored }) } :
                       \E p \in scored :
                           /\ p[1] = best
                           /\ x4' \in SolutionValues(p[2])
                           /\ assignment' = Extract(x4')
                   /\ pc' = "returned"
                   /\ UNCHANGED error
    /\ UNCHANGED << args, locals, results, ranked, cuts >>

\* faulty variant: a roster that exactly fills the slots is rejected
QuickInfeasible_Inclusive == max_races_per_swimmer * S <= NumSlots

\* if max_races_per_swimmer * len(swimmers) < num_slots
QuickInfeasible == max_races_per_swimmer * S < NumSlots

\* ---- enumerate_top_k_by_congestion: quick feasibility check ----
TopKCheck ==
    /\ pc = "check"
    /\ IF QuickInfeasible
       THEN Raise("Infeasible")
       ELSE pc' = "topk_pass1" /\ UNCHANGED error
    /\ UNCHANGED << args, locals, solvers, solves, results, outputs >>

\* ---- enumerate_top_k_by_congestion PASS 1, then the PASS 2 base model ----
TopKPass1 ==
    /\ pc = "topk_pass1"
    /\ \E values \in { { TotalPoints(x) : x \in TopKModel1 } } :
       \E status \in SolveStatuses(values # {}) :
           /\ solves' = Append(solves, <<"solver", status>>)
           /\ IF NotOptimal(status)
              THEN /\ Raise("First pass failed")
                   /\ solvers' = Append(solvers, "solver")
                   /\ UNCHANGED best_points
              ELSE /\ best_points' = SetMax(values)
                   /\ solvers' = solvers \o <<"solver", "solver2">>
                   /\ pc' = "topk_loop"
                   /\ UNCHANGED error
    /\ UNCHANGED << args, locals, max_used, min_max_total, outputs >>

\* faulty variant: the penalty is maximised
OptimalPenalty_Maximised(scored) == SetMax({ p[1] : p \in scored })

\* solver2.Minimize(total_penalty): objective value of an OPTIMAL solve
OptimalPenalty(scored) == SetMin({ p[1] : p \in scored })

\* faulty variant: the loop runs once more
LoopCondition_OneMore == Len(ranked) <= top_k

\* while len(ranked) < top_k
LoopCondition == Len(ranked) < top_k

\* ---- one iteration of  while len(ranked) < top_k  ----
TopKIterate ==
    /\ pc = "topk_loop"
    /\ LoopCondition
    /\ \E scored \in { { <<total_penalty(x), x>> : x \in TopKModel2 } } :
       \E status \in SolveStatuses(scored # {}) :
           /\ solves' = Append(solves, <<"solver2", status>>)
           /\ IF NotOptimal(status)
              THEN /\ pc' = "returned"          \* break
                   /\ UNCHANGED << x4, ranked, cuts, error >>
              ELSE \E pen_val \in { OptimalPenalty(scored) } :
                       \E p \in scored :
                           /\ p[1] = pen_val
                           /\ x4' \in SolutionValues(p[2])
                           /\ ranked' = Append(ranked, <<pen_val, Extract(x4')>>)
                           /\ IF \E k \in DOMAIN Extract(x4') : Extract(x4')[k][4] = None
                              THEN \* x2[(None, slot)] in the cut
                                   Raise("KeyError") /\ UNCHANGED cuts
                              ELSE /\ cuts' = Append(cuts, Extract(x4'))
                                   /\ pc' = "topk_loop"
                                   /\ UNCHANGED error
    /\ UNCHANGED << args, locals, solvers, results, assignment >>

\* ---- loop exit with top_k lineups collected ----
TopKReturn ==
    /\ pc = "topk_loop"
    /\ ~LoopCondition
    /\ pc' = "returned"
    /\ UNCHANGED << args, locals, solvers, solves, results, outputs, error >>

Next ==
    \/ BuildSlots
    \/ Pass1
    \/ Pass2
    \/ Pass3
    \/ Pass4
    \/ TopKCheck
    \/ TopKPass1
    \/ TopKIterate
    \/ TopKReturn

Spec == Init /\ [][Next]_vars

\* one call of compute_best_lineup
BestInit == Init /\ entry = "compute_best_lineup"

BestNext == BuildSlots \/ Pass1 \/ Pass2 \/ Pass3 \/ Pass4

BestSpec == BestInit /\ [][BestNext]_vars

\* one call of enumerate_top_k_by_congestion
TopKInit == Init /\ entry = "enumerate_top_k_by_congestion"

TopKNext == BuildSlots \/ TopKCheck \/ TopKPass1 \/ TopKIterate \/ TopKReturn

TopKSpec == TopKInit /\ [][TopKNext]_vars

\* one call of enumerate_top_k_by_congestion with congestion arguments of
\* the caller's choice: window sizes that repeat, that are 1 or that exceed
\* the segments, and weights that are empty or miss a size; rosters of one
\* or two swimmers
WindowSizeChoices == { <<3, 4>>, <<3, 3>>, <<1, 3, 5>> }

WeightChoices == { DefaultWeights, << >>, (4 :> 3) }

TopKCongestionInit ==
    /\ Called
    /\ entry = "enumerate_top_k_by_congestion"
    /\ solver_fault = "none"
    /\ congestion_window_sizes \in WindowSizeChoices
    /\ congestion_weights \in WeightChoices
    /\ Len(swimmers) <= 2

TopKCongestionSpec == TopKCongestionInit /\ [][TopKNext]_vars

\* one call of compute_best_lineup with a solver that may end a solve
\* without a proof of optimality or return values that are not 0/1
BestFaultInit ==
    /\ Called
    /\ DefaultCongestion
    /\ entry = "compute_best_lineup"
    /\ solver_fault \in {"status", "values"}

BestFaultSpec == BestFaultInit /\ [][BestNext]_vars

\* =====================================================================
\* The two views that run the optimizer:
\*   index  src/app/routes/swimmers.py   ("swimmers.index")
\*   index  src/app/routes/optimize.py   ("optimize.index")
\* One behaviour of RouteSpec is one request.
\* =====================================================================
AK == "Allgemeine Kategorie"

NW == "Nachwuchs"

\* names of the members of the Event enum
AllEvents ==
    { "FR_50", "FR_100", "FR_200", "FR_400", "FR_800", "FR_1500",
      "BK_50", "BK_100", "BK_200", "BR_50", "BR_100", "BR_200",
      "FL_50", "FL_100", "FL_200", "IM_50", "IM_100", "IM_200", "IM_400" }

\* Event.value
EventValue(ev) ==
    CASE ev = "FR_50" -> "50m Free"      [] ev = "FR_100" -> "100m Free"
      [] ev = "FR_200" -> "200m Free"    [] ev = "FR_400" -> "400m Free"
      [] ev = "FR_800" -> "800m Free"    [] ev = "FR_1500" -> "1500m Free"
      [] ev = "BK_50" -> "50m Back"      [] ev = "BK_100" -> "100m Back"
      [] ev = "BK_200" -> "200m Back"    [] ev = "BR_50" -> "50m Breast"
      [] ev = "BR_100" -> "100m Breast"  [] ev = "BR_200" -> "200m Breast"
      [] ev = "FL_50" -> "50m Fly"       [] ev = "FL_100" -> "100m Fly"
      [] ev = "FL_200" -> "200m Fly"     [] ev = "IM_50" -> "50m Medley"
      [] ev = "IM_100" -> "100m Medley"  [] ev = "IM_200" -> "200m Medley"
      [] ev = "IM_400" -> "400m Medley"

SEGMENT_CATALOG ==
    <<"m", AK>> :>
        << <<"FL_50", "FR_200", "BR_100", "BK_200", "FL_100", "IM_200", "FR_400">>,
           <<"BR_200", "BK_100", "FL_200", "IM_400", "BK_50", "FR_1500", "FR_100">>,
           <<"FR_200", "BR_100", "BK_200", "FL_100", "IM_200", "FR_50", "BR_200">>,
           <<"IM_100", "BK_100", "FL_200", "IM_400", "FR_400", "BR_50", "FR_100">> >>
    @@ <<"f", AK>> :>
        << <<"FL_50", "FR_200", "BR_100", "BK_200", "FL_100", "IM_200", "FR_400">>,
           <<"BR_200", "BK_100", "FL_200", "IM_400", "BK_50", "FR_800", "FR_100">>,
           <<"FR_200", "BR_100", "BK_200", "FL_100", "IM_200", "FR_50", "BR_200">>,
           <<"IM_100", "BK_100", "FL_200", "IM_400", "FR_400", "BR_50", "FR_100">> >>
    @@ <<"m", NW>> :>
        << <<"IM_200", "FR_400", "BK_200", "IM_100", "FL_200", "BR_100", "FR_100", "IM_400">>,
           <<"FR_200", "BK_100", "IM_200", "FL_100", "BR_200", "FR_1500", "IM_100", "FR_50">> >>
    @@ <<"f", NW>> :>
        << <<"IM_200", "FR_400", "BK_200", "IM_100", "FL_200", "BR_100", "FR_100", "IM_400">>,
           <<"FR_200", "BK_100", "IM_200", "FL_100", "BR_200", "FR_800", "IM_100", "FR_50">> >>

MAX_RACES_PER_SWIMMER == AK :> 5 @@ NW :> 4

COMPETITION_OPTIONS == <<AK, NW>>

\* faulty variant: the gender is looked up as typed
Lower_AsTyped(str) == str

\* str.lower() on the gender strings a form can carry
Lower(str) == CASE str = "M" -> "m" [] str = "F" -> "f" [] OTHER -> str

\* key = (gender.lower(), competition)
CatalogKey(gender, competition) == << Lower(gender), competition >>

\* except KeyError: raise ValueError("Unsupported roster/competition combination.")
get_segments_raises(gender, competition) ==
    CatalogKey(gender, competition) \notin DOMAIN SEGMENT_CATALOG

\* return SEGMENT_CATALOG[key]
get_segments(gender, competition) == SEGMENT_CATALOG[CatalogKey(gender, competition)]

\* MAX_RACES_PER_SWIMMER.get(competition)
get_max_races_per_swimmer(competition) ==
    IF competition \in DOMAIN MAX_RACES_PER_SWIMMER
    THEN MAX_RACES_PER_SWIMMER[competition] ELSE None

\* ---- requests and table contents ----
Routes == {"swimmers.index", "optimize.index"}

Methods == {"GET", "POST"}

Forms ==
    [gender : {None, "f", "F", "m", "x"},
     competition : {None, AK, NW, "Sprint"},
     enforce_rest : {None, "on"}]

Users == {"u1", "u2"}

\* a PB with the same points for every event; a PB with points 0 for every event
PbProfiles == {"all", "zero"}

Pbs(profile) ==
    IF profile = "all" THEN [ev \in AllEvents |-> 1] ELSE [ev \in AllEvents |-> 0]

SwimmerRow(id, owner, gender, active, profile) ==
    [id |-> id, name |-> id, owner_id |-> owner, gender |-> gender,
     active |-> active, pbs |-> Pbs(profile)]

U1Ids == <<"S1", "S2", "S3", "S4", "S5", "S6">>

U2Ids == <<"T1", "T2", "T3", "T4">>

\* numbers of active female swimmers a user owns
U1Counts == {0, 4, 6}

U2Counts == {0, 2, 4}

\* tables: n1 active female swimmers of u1, n2 of u2, then an inactive
\* female swimmer of u1 and an active male swimmer of u1
Tables ==
    { [i \in 1..n1 |-> SwimmerRow(U1Ids[i], "u1", "f", TRUE, p1)]
      \o [i \in 1..n2 |-> SwimmerRow(U2Ids[i], "u2", "f", TRUE, "all")]
      \o << SwimmerRow("I1", "u1", "f", FALSE, "all"),
            SwimmerRow("M1", "u1", "m", TRUE, "all") >> :
      n1 \in U1Counts, n2 \in U2Counts, p1 \in PbProfiles }

\* request.form.get(field, default)
FormGet(field, default) == IF form[field] = None THEN default ELSE form[field]

selected_gender == FormGet("gender", "f")

competition == FormGet("competition", COMPETITION_OPTIONS[1])

\* True if request.method == "GET" else bool(request.form.get("enforce_rest"))
enforce_rest == IF method = "GET" THEN TRUE ELSE form.enforce_rest \notin {None, ""}

ran == method = "POST"

RouteInit ==
    /\ route \in Routes
    /\ method \in Methods
    /\ form \in Forms
    /\ current_user \in Users
    /\ db \in Tables
    /\ route_pc = "lookup"
    /\ route_segments = << >>
    /\ route_swimmers = << >>
    /\ errors = << >>
    /\ solution = NoSolution
    /\ entry = "none"
    /\ swimmers = << >>
    /\ points = << >>
    /\ segments = << >>
    /\ max_races_per_swimmer = None
    /\ enforce_adjacent_rest = None
    /\ top_k = 0
    /\ DefaultCongestion
    /\ pc = "idle"
    /\ slots = << >>
    /\ seg_offsets = << >>
    /\ events_present = {}
    /\ solvers = << >>
    /\ solves = << >>
    /\ solver_fault = "none"
    /\ best_points = None
    /\ max_used = None
    /\ min_max_total = None
    /\ x4 = None
    /\ ranked = << >>
    /\ cuts = << >>
    /\ assignment = None
    /\ error = None

request == << route, method, form, current_user, db >>

optimizer_call == << entry, swimmers, points, segments, max_races_per_swimmer,
                     enforce_adjacent_rest, top_k, congestion_window_sizes,
                     congestion_weights, pc, locals, solvers, solves,
                     solver_fault, results, outputs, error >>

\* try: segments = optimizer.get_segments(selected_gender, competition)
\* except ValueError as exc: errors.append(str(exc)); segments = []
RouteLookup ==
    /\ route_pc = "lookup"
    /\ IF get_segments_raises(selected_gender, competition)
       THEN /\ errors' = Append(errors, "Unsupported roster/competition combination.")
            /\ route_segments' = << >>
       ELSE /\ route_segments' = get_segments(selected_gender, competition)
            /\ UNCHANGED errors
    /\ route_pc' = "collect"
    /\ UNCHANGED << request, route_swimmers, solution, optimizer_call >>

\* optimize._collect_active_swimmers(gender):
\* select(Swimmer).where(Swimmer.gender == gender, Swimmer.active.is_(True))
_collect_active_swimmers(gender) ==
    SelectSeq(db, LAMBDA sw : sw.gender = gender /\ sw.active)

\* swimmers.index: select(Swimmer).where(Swimmer.gender == selected_gender,
\*     Swimmer.active.is_(True), Swimmer.owner_id == current_user.id)
OwnedActiveSwimmers(gender) ==
    SelectSeq(db, LAMBDA sw : /\ sw.gender = gender
                              /\ sw.active
                              /\ sw.owner_id = current_user)

\* if ran and not errors: swimmers = <query>; if not swimmers: errors.append(...)
RouteCollect ==
    /\ route_pc = "collect"
    /\ IF ran /\ errors = << >>
       THEN /\ route_swimmers' = IF route = "optimize.index"
                                 THEN _collect_active_swimmers(selected_gender)
                                 ELSE OwnedActiveSwimmers(selected_gender)
            /\ errors' = IF route_swimmers' = << >>
                         THEN Append(errors, "No active swimmers available for the selected roster.")
                         ELSE errors
       ELSE UNCHANGED << route_swimmers, errors >>
    /\ route_pc' = "availability"
    /\ UNCHANGED << request, route_segments, solution, optimizer_call >>

\* (segment, position) of every slot of the view's schedule
RouteSlots ==
    UNION { { <<g, i>> : i \in DOMAIN route_segments[g] } : g \in DOMAIN route_segments }

\* Counter(ev for segment in segments for ev in segment)
occurrences ==
    [ev \in { route_segments[p[1]][p[2]] : p \in RouteSlots } |->
        Cardinality({ p \in RouteSlots : route_segments[p[1]][p[2]] = ev })]

\* availability[pb.event].add(swimmer.id) for every PB with pb.points
availability ==
    [ev \in DOMAIN occurrences |->
        { route_swimmers[j].id :
            j \in { i \in DOMAIN route_swimmers :
                      /\ ev \in DOMAIN route_swimmers[i].pbs
                      /\ route_swimmers[i].pbs[ev] # 0 } }]

\* events with len(availability[event]) < required
missing ==
    { ev \in DOMAIN occurrences : Cardinality(availability[ev]) < occurrences[ev] }

RouteAvailability ==
    /\ route_pc = "availability"
    /\ IF ran /\ errors = << >> /\ missing # {}
       THEN errors' = Append(errors, "Not enough swimmers with a personal best")
       ELSE UNCHANGED errors
    /\ route_pc' = "size"
    /\ UNCHANGED << request, route_segments, route_swimmers, solution, optimizer_call >>

\* sum(occurrences.values()) / sum(len(seg) for seg in segments)
total_slots == Cardinality(RouteSlots)

max_races == get_max_races_per_swimmer(competition)

\* if max_races * len(swimmers) < total_slots
RosterTooSmall == max_races * Len(route_swimmers) < total_slots

RouteSize ==
    /\ route_pc = "size"
    /\ IF ran /\ errors = << >> /\ RosterTooSmall
       THEN errors' = Append(errors, "Roster too small for this competition")
       ELSE UNCHANGED errors
    /\ route_pc' = "optimize"
    /\ UNCHANGED << request, route_segments, route_swimmers, solution, optimizer_call >>

\* swimmer_ids = [sw.id for sw in swimmers]
swimmer_ids == [i \in DOMAIN route_swimmers |-> route_swimmers[i].id]

\* {(sw.id, pb.event): pb.points for sw in swimmers for pb in sw.pbs if pb.points}
points_of_roster ==
    [p \in UNION { { <<route_swimmers[i].id, ev>> :
                       ev \in { e \in DOMAIN route_swimmers[i].pbs :
                                  route_swimmers[i].pbs[e] # 0 } } :
                   i \in DOMAIN route_swimmers }
       |-> LET i == CHOOSE j \in DOMAIN route_swimmers : route_swimmers[j].id = p[1]
           IN  route_swimmers[i].pbs[p[2]]]

\* optimizer.compute_best_lineup(swimmers=swimmer_ids, points=points,
\*     segments=segments, max_races_per_swimmer=max_races,
\*     enforce_adjacent_rest=enforce_rest)
RouteCall ==
    /\ route_pc = "optimize"
    /\ IF ran /\ errors = << >>
       THEN /\ entry' = "compute_best_lineup"
            /\ swimmers' = swimmer_ids
            /\ points' = points_of_roster
            /\ segments' = route_segments
            /\ max_races_per_swimmer' = max_races
            /\ enforce_adjacent_rest' = enforce_rest
            /\ pc' = "call"
            /\ route_pc' = "in_call"
       ELSE /\ route_pc' = "done"
            /\ UNCHANGED << entry, swimmers, points, segments,
                            max_races_per_swimmer, enforce_adjacent_rest, pc >>
    /\ UNCHANGED << request, route_segments, route_swimmers, errors, solution,
                    top_k, congestion_window_sizes, congestion_weights, locals,
                    solvers, solves, solver_fault, results, outputs, error >>

\* The schedules of the catalog have 16 and 28 slots, more than the solves
\* above can enumerate, so inside a request the call is taken by its
\* outcome: it raises the RuntimeError of one of the passes, or it returns
\* one tuple (slot, seg_idx, ev, swimmer, pts) per slot of the schedule, in
\* slot order, each with a swimmer of the roster and points.get((s, ev), 0).
\* The lineup drawn here gives slot t to swimmer (t + shift) mod len(swimmers).
RoundRobin(shift) ==
    [k \in 1..NumSlots |->
        LET chosen == swimmers[((k - 1 + shift) % S) + 1]
        IN  << slots[k][1], slots[k][2], slots[k][3], chosen,
               PointsGet(chosen, slots[k][3]) >>]

ComputeBestLineup ==
    /\ route_pc = "in_call"
    /\ pc = "pass1"
    /\ \/ \E shift \in 0..1 :
              /\ assignment' = RoundRobin(shift)
              /\ pc' = "returned"
              /\ UNCHANGED error
       \/ \E msg \in { "First pass failed", "Second pass failed",
                        "Third pass failed", "Fourth pass failed" } :
              /\ Raise(msg)
              /\ UNCHANGED assignment
    /\ UNCHANGED << args, locals, solvers, solves, results, x4, ranked, cuts >>

\* segment_offsets of _format_solution
RECURSIVE SegmentOffset(_, _)
SegmentOffset(segs, g) ==
    IF g = 1 THEN 0 ELSE SegmentOffset(segs, g - 1) + Len(segs[g - 1])

\* sum(item[4] for item in assignment)
RECURSIVE SumOfPoints(_, _)
SumOfPoints(lineup, k) ==
    IF k = 0 THEN 0 ELSE lineup[k][5] + SumOfPoints(lineup, k - 1)

\* swimmer_lookup.get(swimmer_id).name if swimmer_id in swimmer_lookup else "-"
SwimmerName(lookup, swimmer_id) ==
    IF \E i \in DOMAIN lookup : lookup[i].id = swimmer_id
    THEN lookup[CHOOSE i \in DOMAIN lookup : lookup[i].id = swimmer_id].name
    ELSE "-"

\* rows.sort(key=lambda item: item["slot"]) (stable)
RECURSIVE SortBySlot(_)
SortBySlot(rows) ==
    IF rows = << >> THEN << >>
    ELSE LET least == CHOOSE k \in DOMAIN rows :
                          /\ \A j \in DOMAIN rows : rows[k].slot <= rows[j].slot
                          /\ \A j \in 1..(k - 1) : rows[j].slot > rows[k].slot
         IN  << rows[least] >>
             \o SortBySlot([j \in 1..(Len(rows) - 1) |->
                               IF j < least THEN rows[j] ELSE rows[j + 1]])

\* the rows of segment g (seg_idx = g - 1)
SegmentRows(lineup, segs, lookup, g) ==
    LET mine == SelectSeq(lineup, LAMBDA item : item[2] = g - 1)
    IN  SortBySlot([k \in DOMAIN mine |->
            [slot |-> mine[k][1] - SegmentOffset(segs, g) + 1,
             event |-> EventValue(mine[k][3]),
             swimmer |-> SwimmerName(lookup, mine[k][4]),
             points |-> mine[k][5]]])

\* f"Day {day}, Segment {seg}" / f"Segment {seg_idx + 1}"
SegmentLabel(selected_competition, g) ==
    IF selected_competition = AK
    THEN << "Day", ((g - 1) \div 2) + 1, "Segment", ((g - 1) % 2) + 1 >>
    ELSE << "Segment", g >>

\* optimize._format_solution and the same code inline in swimmers.index
_format_solution(lineup, segs, lookup, selected_competition) ==
    [total_points |-> SumOfPoints(lineup, Len(lineup)),
     segments |-> [g \in DOMAIN segs |->
                      [label |-> SegmentLabel(selected_competition, g),
                       entries |-> SegmentRows(lineup, segs, lookup, g)]]]

\* f"Optimization failed: {exc}"
OptimizationFailed(exc) ==
    CASE exc = "First pass failed" -> "Optimization failed: First pass failed"
      [] exc = "Second pass failed" -> "Optimization failed: Second pass failed"
      [] exc = "Third pass failed" -> "Optimization failed: Third pass failed"
      [] exc = "Fourth pass failed" -> "Optimization failed: Fourth pass failed"

\* swimmers.index:
\*   try: lineup = optimizer.compute_best_lineup(...)
\*   except (ValueError, RuntimeError) as exc: errors.append(f"Optimization failed: {exc}")
\*   else: solution = {...}
SwimmersResult ==
    /\ route_pc = "in_call"
    /\ route = "swimmers.index"
    /\ pc \in {"returned", "raised"}
    /\ IF pc = "raised"
       THEN /\ errors' = Append(errors, OptimizationFailed(error))
            /\ UNCHANGED solution
       ELSE /\ solution' = _format_solution(assignment, route_segments,
                                            route_swimmers, competition)
            /\ UNCHANGED errors
    /\ route_pc' = "done"
    /\ UNCHANGED << request, route_segments, route_swimmers, optimizer_call >>

\* optimize.index:
\*   try: penalty, lineup = optimizer.compute_best_lineup(...)
\*   except ValueError as exc: errors.append(str(exc))
\*   except RuntimeError as exc: errors.append(f"Optimization failed: {exc}")
\*   else: solution = _format_solution(lineup, ...)
\* Unpacking a list into two names raises ValueError unless it has exactly
\* two items; with two items lineup is one 5-tuple and item[4] of its first
\* member, an int, raises TypeError, which nothing catches.
OptimizeResult ==
    /\ route_pc = "in_call"
    /\ route = "optimize.index"
    /\ pc \in {"returned", "raised"}
    /\ IF pc = "raised"
       THEN /\ errors' = Append(errors, OptimizationFailed(error))
            /\ route_pc' = "done"
       ELSE IF Len(assignment) > 2
       THEN /\ errors' = Append(errors, "too many values to unpack (expected 2)")
            /\ route_pc' = "done"
       ELSE IF Len(assignment) < 2
       THEN /\ errors' = Append(errors, "not enough values to unpack")
            /\ route_pc' = "done"
       ELSE /\ route_pc' = "TypeError"
            /\ UNCHANGED errors
    /\ UNCHANGED << request, route_segments, route_swimmers, solution, optimizer_call >>

RouteNext ==
    \/ RouteLookup
    \/ RouteCollect
    \/ RouteAvailability
    \/ RouteSize
    \/ RouteCall
    \/ BuildSlots
    \/ ComputeBestLineup
    \/ SwimmersResult
    \/ OptimizeResult

RouteSpec == RouteInit /\ [][RouteNext]_vars

\* =====================================================================
\* Claims.  The definitions below restate the claims on the returned
\* lineups, tuples (slot, seg_idx, event, swimmer, points), and on slot ->
\* swimmer maps; they do not use the solver models above.
\* =====================================================================
Best == entry = "compute_best_lineup"

TopK == entry = "enumerate_top_k_by_congestion"

BestReturned == Best /\ pc = "returned"

\* the lineups the call has returned
ReturnedLineups ==
    IF pc # "returned" THEN {}
    ELSE IF Best THEN {assignment}
    ELSE { ranked[i][2] : i \in 1..Len(ranked) }

\* the schedule, flattened in segment order then position order
RECURSIVE FlatSchedule(_, _)
FlatSchedule(segs, g) ==
    IF g > Len(segs) THEN << >>
    ELSE [i \in 1..Len(segs[g]) |-> <<g - 1, segs[g][i]>>] \o FlatSchedule(segs, g + 1)

LineupSwimmer(L, k) == L[k][4]

LineupRaces(L, s) == Cardinality({ k \in 1..Len(L) : L[k][4] = s })

RECURSIVE LineupPointsUpTo(_, _)
LineupPointsUpTo(L, k) == IF k = 0 THEN 0 ELSE L[k][5] + LineupPointsUpTo(L, k - 1)

LineupPoints(L) == LineupPointsUpTo(L, Len(L))

LineupUsed(L) == Cardinality({ L[k][4] : k \in 1..Len(L) })

LineupMaxRaces(L) ==
    SetMax({0} \cup { LineupRaces(L, s) : s \in Range(swimmers) })

\* slot -> swimmer maps and what the claims measure on them
Maps == [SlotIds -> Range(swimmers)]

MapOf(L) == [t \in SlotIds |-> L[t + 1][4]]

MapRaces(a, s) == Cardinality({ t \in SlotIds : a[t] = s })

MapCap(a) == \A s \in Range(swimmers) : MapRaces(a, s) <= max_races_per_swimmer

MapNoDup(a) ==
    \A t1 \in SlotIds : \A t2 \in (t1 + 1)..(NumSlots - 1) :
        a[t1] = a[t2] => EventOf(t1) # EventOf(t2)

\* t and t + 1 are consecutive positions of one segment
AdjacentInSegment(t) == (t + 1) \in SlotIds /\ SegIdx(t) = SegIdx(t + 1)

MapRest(a) == \A t \in SlotIds : AdjacentInSegment(t) => a[t] # a[t + 1]

MapHard(a) ==
    /\ MapCap(a)
    /\ MapNoDup(a)
    /\ enforce_adjacent_rest => MapRest(a)

RECURSIVE MapPointsUpTo(_, _)
MapPointsUpTo(a, n) ==
    IF n = 0 THEN 0
    ELSE PointsGet(a[n - 1], EventOf(n - 1)) + MapPointsUpTo(a, n - 1)

MapPoints(a) == MapPointsUpTo(a, NumSlots)

MapUsed(a) == Cardinality({ a[t] : t \in SlotIds })

MapMaxRaces(a) == SetMax({0} \cup { MapRaces(a, s) : s \in Range(swimmers) })

HardMaps == { a \in Maps : MapHard(a) }

\* (points, swimmers used, largest race count) of every hard-feasible map
HardScores == { <<MapPoints(a), MapUsed(a), MapMaxRaces(a)>> : a \in HardMaps }

OptPoints(scores) == SetMax({ sc[1] : sc \in scores })

OptUsed(scores) ==
    SetMax({ sc[2] : sc \in { q \in scores : q[1] = OptPoints(scores) } })

OptMinimax(scores) ==
    SetMin({ sc[3] : sc \in { q \in scores : q[1] = OptPoints(scores)
                                             /\ q[2] = OptUsed(scores) } })

\* C1: whenever compute_best_lineup returns, the points of the returned
\* tuples add up to the maximum of the points sum (missing entries counted
\* as 0) over all slot -> swimmer assignments that satisfy the per-swimmer
\* cap, no-duplicate-event and, when enforce_adjacent_rest, hard rest.
C1_PointsAreMaximal ==
    BestReturned =>
        LineupPoints(assignment) = SetMax({ MapPoints(a) : a \in HardMaps })

\* C1 witness: a returned lineup with positive points while some
\* hard-feasible assignment scores less.
C1_Witness ==
    /\ BestReturned
    /\ LineupPoints(assignment) > 0
    /\ \E a \in HardMaps : MapPoints(a) < LineupPoints(assignment)

\* C2: every returned lineup has exactly one tuple per slot of the
\* schedule, in global slot order, and each tuple names one swimmer of the
\* roster (never None).
C2_OneSwimmerPerSlot ==
    \A L \in ReturnedLineups :
        LET flat == FlatSchedule(segments, 1)
        IN  /\ Len(L) = Len(flat)
            /\ \A k \in 1..Len(L) :
                   /\ L[k][1] = k - 1
                   /\ L[k][2] = flat[k][1]
                   /\ L[k][3] = flat[k][2]
                   /\ L[k][4] \in Range(swimmers)

\* C2 witness: both functions have returned a lineup over several segments.
C2_Witness ==
    /\ TopK
    /\ pc = "returned"
    /\ Len(ranked) = 2
    /\ Len(segments) > 1
    /\ Len(swimmers) > 1

\* C3: in every returned lineup no swimmer has more than
\* max_races_per_swimmer slots.
C3_CapRespected ==
    \A L \in ReturnedLineups :
        \A s \in Range(swimmers) : LineupRaces(L, s) <= max_races_per_swimmer

\* C3 witness: a returned lineup in which a swimmer races exactly the cap
\* and there are more slots than the cap.
C3_Witness ==
    /\ BestReturned
    /\ NumSlots > max_races_per_swimmer
    /\ \E s \in Range(swimmers) : LineupRaces(assignment, s) = max_races_per_swimmer

\* C4: in every returned lineup, for every swimmer and event, at most one
\* slot of that event across all segments is assigned to the swimmer.
C4_NoDuplicateEvent ==
    \A L \in ReturnedLineups :
        \A k1 \in 1..Len(L) : \A k2 \in 1..Len(L) :
            (k1 < k2 /\ L[k1][3] = L[k2][3]) => L[k1][4] # L[k2][4]

\* C4 witness: a returned lineup for a schedule in which an event occurs in
\* two different segments, one swimmer racing in both segments.
C4_Witness ==
    /\ BestReturned
    /\ \E k1 \in 1..NumSlots : \E k2 \in 1..NumSlots :
           /\ assignment[k1][3] = assignment[k2][3]
           /\ assignment[k1][2] # assignment[k2][2]
    /\ \E k1 \in 1..NumSlots : \E k2 \in 1..NumSlots :
           /\ assignment[k1][4] = assignment[k2][4]
           /\ assignment[k1][2] # assignment[k2][2]

\* C5: with enforce_adjacent_rest, no swimmer of the returned lineup has two
\* slots at consecutive positions of the same segment.
C5_HardRest ==
    (BestReturned /\ enforce_adjacent_rest) =>
        \A k \in 1..(Len(assignment) - 1) :
            assignment[k][2] = assignment[k + 1][2]
                => assignment[k][4] # assignment[k + 1][4]

\* C5 witness: a lineup returned with enforce_adjacent_rest for a schedule
\* with consecutive slots in a segment, where without hard rest more points
\* are possible.
C5_Witness ==
    /\ BestReturned
    /\ enforce_adjacent_rest
    /\ \E k \in 1..(NumSlots - 1) : assignment[k][2] = assignment[k + 1][2]
    /\ \E a \in Maps : /\ MapCap(a)
                       /\ MapNoDup(a)
                       /\ MapPoints(a) > LineupPoints(assignment)

\* C6: compute_best_lineup called with len(roster) * max_races < total
\* slots fails with the infeasible-roster pre-check signal (the "Infeasible"
\* error of TopKCheck) before any solver is created, not as a pass-1
\* failure.
C6_PreCheckFires ==
    (Best /\ Len(swimmers) * max_races_per_swimmer < Len(FlatSchedule(segments, 1))) =>
        /\ solvers = << >>
        /\ pc = "raised" => error = "Infeasible"

\* C7: the returned lineup uses the maximum number of distinct swimmers
\* among the hard-feasible assignments whose points equal the optimum P*.
C7_SwimmersUsedMaximal ==
    BestReturned => LineupUsed(assignment) = OptUsed(HardScores)

\* C7 witness: a returned lineup using at least two swimmers while a
\* points-optimal hard-feasible assignment uses fewer.
C7_Witness ==
    /\ BestReturned
    /\ LineupUsed(assignment) >= 2
    /\ \E a \in HardMaps : /\ MapPoints(a) = LineupPoints(assignment)
                           /\ MapUsed(a) < LineupUsed(assignment)

\* C8: the largest per-swimmer race count of the returned lineup is the
\* minimum of that maximum over the hard-feasible assignments with points
\* P* and exactly U* swimmers used.
C8_MinimaxRaces ==
    BestReturned => LineupMaxRaces(assignment) = OptMinimax(HardScores)

\* C8 witness: a returned lineup whose largest race count is below that of
\* another assignment with the same points and swimmers used.
C8_Witness ==
    /\ BestReturned
    /\ \E a \in HardMaps : /\ MapPoints(a) = LineupPoints(assignment)
                           /\ MapUsed(a) = LineupUsed(assignment)
                           /\ MapMaxRaces(a) > LineupMaxRaces(assignment)

\* the slot -> swimmer map a solver assignment x stands for
XMap(x) == [t \in SlotIds |-> CHOOSE s \in Range(swimmers) : x[t][s] = 1]

\* C9: every assignment feasible for the model of pass 2, 3 or 4 has total
\* points equal to the optimum recorded by pass 1, and every assignment
\* feasible for the model of pass 3 or 4 has exactly as many swimmers with
\* at least one slot as the optimum recorded by pass 2.
C9_PassLocking ==
    /\ (Best /\ pc = "pass2") =>
           \A x \in Model2 : MapPoints(XMap(x)) = best_points
    /\ (Best /\ pc = "pass3") =>
           \A x \in Model3 : /\ MapPoints(XMap(x)) = best_points
                             /\ MapUsed(XMap(x)) = max_used
    /\ (Best /\ pc = "pass4") =>
           \A x \in Model4 : /\ MapPoints(XMap(x)) = best_points
                             /\ MapUsed(XMap(x)) = max_used

\* C9 witness: pass 4 is about to be solved, its model is not empty, and
\* some hard-feasible assignment misses the recorded points and another
\* one reaches them with fewer swimmers.
C9_Witness ==
    /\ Best
    /\ pc = "pass4"
    /\ Model4 # {}
    /\ \E a \in HardMaps : MapPoints(a) < best_points
    /\ \E a \in HardMaps : MapPoints(a) = best_points /\ MapUsed(a) < max_used

\* the four spacing terms of an assignment, in priority order
AdjacentPairs(a) ==
    Cardinality({ t \in SlotIds : AdjacentInSegment(t) /\ a[t] = a[t + 1] })

Window3(t) ==
    /\ (t + 2) \in SlotIds
    /\ SegIdx(t) = SegIdx(t + 2)

Window3Count(a, t, s) == Cardinality({ u \in {t, t + 1, t + 2} : a[u] = s })

\* sum over swimmers and 3-slot windows of max(0, count - 1)
Window3Excess(a) ==
    Cardinality({ q \in SlotIds \X Range(swimmers) \X {1, 2} :
                    /\ Window3(q[1])
                    /\ Window3Count(a, q[1], q[2]) - 1 >= q[3] })

MaxPerSegment(a) ==
    SetMax({0} \cup { Cardinality({ t \in SlotIds : SegIdx(t) = g /\ a[t] = s }) :
                          g \in SegIds, s \in Range(swimmers) })

DayRaces(a, s, days) ==
    Cardinality({ t \in SlotIds : SegIdx(t) \in days /\ a[t] = s })

Abs(n) == IF n < 0 THEN 0 - n ELSE n

DayImbalance(a) ==
    SetMax({0} \cup { Abs(DayRaces(a, s, {0, 1}) - DayRaces(a, s, {2, 3})) :
                          s \in Range(swimmers) })

SpacingTerms(a) ==
    << AdjacentPairs(a), Window3Excess(a), MaxPerSegment(a),
       IF Len(segments) = 4 THEN DayImbalance(a) ELSE 0 >>

LexLeq(u, v) ==
    \/ u[1] < v[1]
    \/ u[1] = v[1] /\ u[2] < v[2]
    \/ u[1] = v[1] /\ u[2] = v[2] /\ u[3] < v[3]
    \/ u[1] = v[1] /\ u[2] = v[2] /\ u[3] = v[3] /\ u[4] <= v[4]

\* spacing terms of the assignments satisfying the hard constraints and locks
LockedTerms ==
    { SpacingTerms(a) : a \in { b \in HardMaps : /\ MapPoints(b) = best_points
                                                 /\ MapUsed(b) = max_used
                                                 /\ MapMaxRaces(b) <= min_max_total } }

\* C10: among the assignments satisfying the hard constraints and the locks
\* (points = P*, swimmers used = U*, every race count <= Mtot*), the lineup
\* compute_best_lineup returns is lexicographically minimal in (adjacent
\* same-swimmer pairs within a segment, 3-slot-window excess, maximum
\* per-(swimmer, segment) race count, and, only for a four-segment
\* schedule, the maximum over swimmers of |day-1 races - day-2 races|).
C10_LexicographicallyMinimal ==
    BestReturned =>
        /\ SpacingTerms(MapOf(assignment)) \in LockedTerms
        /\ \A v \in LockedTerms : LexLeq(SpacingTerms(MapOf(assignment)), v)

\* C10 witness: a returned lineup for which another locked assignment is
\* worse in an earlier term and strictly better in a later one.
C10_Witness ==
    /\ BestReturned
    /\ \E v \in LockedTerms :
           LET u == SpacingTerms(MapOf(assignment))
           IN  \E i \in 1..3 : \E j \in 2..4 :
                   /\ i < j
                   /\ \A h \in 1..(i - 1) : u[h] = v[h]
                   /\ u[i] < v[i]
                   /\ u[j] > v[j]

\* the error that names pass k
PassFailure ==
    << "First pass failed", "Second pass failed",
       "Third pass failed", "Fourth pass failed" >>

\* C11: if the solve of pass k of compute_best_lineup ends with a status
\* other than OPTIMAL (infeasible, feasible without proof, abnormal), the
\* call has raised the error naming pass k, no later solver has been created
\* or solved, and no lineup is returned.
C11_FailedPassAborts ==
    Best =>
        \A k \in 1..Len(solves) :
            solves[k][2] # "OPTIMAL" =>
                /\ pc = "raised"
                /\ error = PassFailure[k]
                /\ Len(solves) = k
                /\ Len(solvers) = k
                /\ assignment = None

\* C11 witness: pass 3 had a non-empty model and ended without a proof of
\* optimality.
C11_Witness ==
    /\ Best
    /\ Len(solves) = 3
    /\ solves[3][2] = "FEASIBLE"
    /\ pc = "raised"

TopKReturned == TopK /\ pc = "returned"

\* assignments satisfying the enumerator's hard constraints (hard rest
\* included) and their points
TopKHardMaps == { a \in Maps : MapRest(a) /\ MapCap(a) /\ MapNoDup(a) }

\* the assignments among them that attain the points optimum
TopKOptimalMaps ==
    UNION { UNION { { q[2] : q \in { r \in scored : r[1] = best } } :
                    best \in { SetMax({ q[1] : q \in scored }) } } :
            scored \in { { <<MapPoints(a), a>> : a \in TopKHardMaps } } }

\* C12: enumerate_top_k_by_congestion returns exactly min(top_k, n) lineups,
\* n being the number of distinct assignments that satisfy its hard
\* constraints and attain the pass-1 points optimum; with one such
\* assignment and top_k > 1 it returns exactly 1 lineup.
C12_ReturnsMinOfTopKAndN ==
    TopKReturned =>
        LET n == Cardinality(TopKOptimalMaps)
        IN  Len(ranked) = IF top_k < n THEN top_k ELSE n

\* C12 witness: the call returned one lineup although top_k is larger.
C12_Witness ==
    /\ TopKReturned
    /\ top_k > 1
    /\ Len(ranked) = 1

\* C13: no two lineups of the list returned by enumerate_top_k_by_congestion
\* have the same (swimmer, slot) assignment set: every two returned lineups
\* differ in the swimmer of at least one slot.
C13_LineupsDistinct ==
    TopKReturned =>
        \A i \in 1..Len(ranked) : \A j \in 1..Len(ranked) :
            i < j => \E k \in 1..NumSlots : ranked[i][2][k][4] # ranked[j][2][k][4]

\* C13 witness: two lineups were returned, with equal penalties, that agree
\* on some slots and differ on others.
C13_Witness ==
    /\ TopKReturned
    /\ Len(ranked) = 2
    /\ ranked[1][1] = ranked[2][1]
    /\ \E k \in 1..NumSlots : ranked[1][2][k][4] = ranked[2][2][k][4]
    /\ \E k \in 1..NumSlots : ranked[1][2][k][4] # ranked[2][2][k][4]

\* a window of L consecutive slots of one segment starts at slot t
WindowAt(t, L) == (t + L - 1) \in SlotIds /\ SegIdx(t) = SegIdx(t + L - 1)

\* sum over swimmers and L-slot windows of max(0, count - 1)
WindowExcess(a, L) ==
    Cardinality({ q \in { t \in SlotIds : WindowAt(t, L) } \X Range(swimmers) \X (1..(L - 1)) :
                    Cardinality({ u \in q[1]..(q[1] + L - 1) : a[u] = q[2] }) - 1 >= q[3] })

\* congestion of an assignment: weight 2 on 3-slot windows, 1 on 4-slot ones
MapCongestion(a) == 2 * WindowExcess(a, 3) + WindowExcess(a, 4)

\* C14: the penalties of the list returned by enumerate_top_k_by_congestion
\* are non-decreasing in list order, each is the congestion of its lineup,
\* and the first is the least congestion among all points-optimal
\* hard-feasible assignments.
C14_PenaltiesNonDecreasing ==
    TopKReturned =>
        /\ \A i \in 1..(Len(ranked) - 1) : ranked[i][1] <= ranked[i + 1][1]
        /\ \A i \in 1..Len(ranked) : ranked[i][1] = MapCongestion(MapOf(ranked[i][2]))
        /\ Len(ranked) > 0 =>
               ranked[1][1] = SetMin({ MapCongestion(a) : a \in TopKOptimalMaps })

\* C14 witness: two lineups were returned and the second has a strictly
\* larger penalty than the first.
C14_Witness ==
    /\ TopKReturned
    /\ Len(ranked) = 2
    /\ ranked[1][1] < ranked[2][1]

\* C15: every lineup returned by enumerate_top_k_by_congestion has a points
\* sum equal to the pass-1 optimum, the maximum of the points over the
\* assignments satisfying the enumerator's hard constraints; no lineup with
\* fewer points is returned to reach top_k results.
C15_TopKPointsOptimal ==
    TopKReturned =>
        \A best \in { SetMax({ MapPoints(a) : a \in TopKHardMaps }) } :
            \A i \in 1..Len(ranked) : LineupPoints(ranked[i][2]) = best

\* C15 witness: fewer than top_k lineups were returned, with positive
\* points, although a hard-feasible assignment with fewer points exists.
C15_Witness ==
    /\ TopKReturned
    /\ Len(ranked) > 0
    /\ Len(ranked) < top_k
    /\ LineupPoints(ranked[1][2]) > 0
    /\ \E a \in TopKHardMaps : MapPoints(a) < LineupPoints(ranked[1][2])

\* number of slots of the schedule
TotalSlots == Len(FlatSchedule(segments, 1))

\* C16: enumerate_top_k_by_congestion raises its infeasibility error before
\* any solver is created or solved whenever max_races_per_swimmer *
\* len(roster) < total slots, and never raises that error otherwise.
C16_QuickCheck ==
    TopK =>
        IF max_races_per_swimmer * Len(swimmers) < TotalSlots
        THEN /\ solvers = << >>
             /\ solves = << >>
             /\ pc \in {"call", "check", "raised"}
             /\ pc = "raised" => error = "Infeasible"
        ELSE error # "Infeasible"

\* C16 witness: the error was raised for a roster of several swimmers.
C16_Witness ==
    /\ TopK
    /\ Len(swimmers) > 1
    /\ pc = "raised"
    /\ error = "Infeasible"
    /\ solvers = << >>

\* C17: extraction fails with an error instead of returning a lineup
\* whenever, for some slot, no swimmer's variable of the solved model has a
\* value above 0.5; no returned tuple has a missing swimmer with 0 points.
C17_ExtractionFailsLoudly ==
    BestReturned =>
        /\ \A t \in SlotIds : \E s \in Range(swimmers) : 2 * x4[t][s] > 1
        /\ \A k \in 1..Len(assignment) : assignment[k][4] # None

\* points of a (swimmer, event) pair read from the table, 0 when absent
TablePoints(s, ev) == IF <<s, ev>> \in DOMAIN points THEN points[<<s, ev>>] ELSE 0

RECURSIVE TablePointsUpTo(_, _)
TablePointsUpTo(a, n) ==
    IF n = 0 THEN 0
    ELSE TablePoints(a[n - 1], EventOf(n - 1)) + TablePointsUpTo(a, n - 1)

\* C18: a (swimmer, event) pair absent from the points table contributes 0
\* to the points expression of the passes and yields points 0 in the
\* returned tuple, and absence adds no constraint: the feasible assignments
\* of pass 1 are exactly those the hard constraints allow, whatever the
\* table holds.
C18_MissingEntryIsZero ==
    /\ (Best /\ pc = "pass1") =>
           /\ { XMap(x) : x \in Model1 } = HardMaps
           /\ \A x \in Model1 : TotalPoints(x) = TablePointsUpTo(XMap(x), NumSlots)
    /\ (Best /\ pc = "pass4") =>
           \A x \in Model4 : TotalPoints(x) = TablePointsUpTo(XMap(x), NumSlots)
    /\ BestReturned =>
           \A k \in 1..Len(assignment) :
               assignment[k][5] = TablePoints(assignment[k][4], assignment[k][3])

\* C18 witness: a returned tuple assigns a swimmer without an entry to an
\* event for which another swimmer of the roster has one.
C18_Witness ==
    /\ BestReturned
    /\ \E k \in 1..Len(assignment) :
           /\ <<assignment[k][4], assignment[k][3]>> \notin DOMAIN points
           /\ assignment[k][5] = 0
           /\ \E s \in Range(swimmers) : <<s, assignment[k][3]>> \in DOMAIN points

PassOrder == <<"solver1", "solver2", "solver3", "solver4">>

PassPc == <<"pass1", "pass2", "pass3", "pass4">>

\* C19: compute_best_lineup solves its passes in the order 1, 2, 3, 4; pass
\* k+1 is reached only after the solve of pass k returned OPTIMAL; each pass
\* is solved on a solver of its own, created for it, never on the solver of
\* an earlier pass.
C19_PassesInOrder ==
    Best =>
        /\ Len(solvers) <= 4
        /\ solvers = SubSeq(PassOrder, 1, Len(solvers))
        /\ Len(solves) = Len(solvers)
        /\ \A k \in 1..Len(solves) : solves[k][1] = solvers[k]
        /\ \A j, k \in 1..Len(solvers) : j # k => solvers[j] # solvers[k]
        /\ \A k \in 1..(Len(solves) - 1) : solves[k][2] = "OPTIMAL"
        /\ \A k \in 1..4 :
               pc = PassPc[k] =>
                   /\ Len(solves) = k - 1
                   /\ \A j \in 1..(k - 1) : solves[j][2] = "OPTIMAL"
        /\ pc = "returned" =>
               /\ Len(solves) = 4
               /\ solves[4][2] = "OPTIMAL"

\* C19 witness: with a solver that may stop short of a proven optimum, a
\* call went through the four passes, each on its own solver, and returned.
C19_Witness ==
    /\ BestReturned
    /\ solver_fault = "status"
    /\ solvers = PassOrder
    /\ \A k \in 1..4 : solves[k] = <<PassOrder[k], "OPTIMAL">>

\* (total points, swimmers used, largest race count) of a lineup
LineupTriple(L) == <<LineupPoints(L), LineupUsed(L), LineupMaxRaces(L)>>

\* C20: the total points, the number of swimmers used and the largest
\* per-swimmer race count of a returned lineup are determined by the inputs
\* of the call: they equal the lexicographic optimum over the hard-feasible
\* assignments, and every assignment the last pass may pick instead gives a
\* lineup with the same three numbers.
C20_Reproducible ==
    BestReturned =>
        /\ LineupTriple(assignment) =
               <<OptPoints(HardScores), OptUsed(HardScores), OptMinimax(HardScores)>>
        /\ \A x \in Model4 : LineupTriple(Extract(x)) = LineupTriple(assignment)

\* C20 witness: the last pass had another optimal assignment to pick, one
\* that gives a different lineup.
C20_Witness ==
    /\ BestReturned
    /\ \E x \in Model4 : /\ Objective4(x) = Objective4(x4)
                         /\ Extract(x) # assignment

\* ---------------------------------------------------------------------
\* Claims on the catalog and the views
\* ---------------------------------------------------------------------
Unsupported == "Unsupported roster/competition combination."

\* the gender letter in lower case
GenderLetter(g) == IF g \in {"m", "M"} THEN "m" ELSE IF g \in {"f", "F"} THEN "f" ELSE g

\* the pair the request asks for is one of the four the catalog lists
KnownPair == << GenderLetter(selected_gender), competition >> \in {"m", "f"} \X {AK, NW}

\* C22: get_segments returns the catalog's segment list, whole and in
\* order, when (lower-cased gender, competition) is a catalog key and fails
\* with the unsupported-configuration error for every other pair; an unknown
\* pair never yields a schedule.
C22_GetSegments ==
    (route # "none" /\ route_pc # "lookup") =>
        /\ get_segments_raises(selected_gender, competition) <=> ~KnownPair
        /\ KnownPair =>
               /\ Unsupported \notin Range(errors)
               /\ route_segments =
                      SEGMENT_CATALOG[<< GenderLetter(selected_gender), competition >>]
               /\ Len(route_segments) = IF competition = AK THEN 4 ELSE 2
               /\ \A g \in DOMAIN route_segments :
                      Len(route_segments[g]) = IF competition = AK THEN 7 ELSE 8
        /\ ~KnownPair =>
               /\ errors = << Unsupported >>
               /\ route_segments = << >>
               /\ pc = "idle"

\* C22 witness: a gender typed in upper case found its schedule.
C22_Witness ==
    /\ route_pc = "collect"
    /\ form.gender = "F"
    /\ competition = NW
    /\ Len(route_segments) = 2

\* spacing terms of the assignments pass 4 can choose from
FeasibleTerms == { SpacingTerms(XMap(x)) : x \in Model4 }

\* C23: in pass 4 each weight is strictly larger than the largest value the
\* weighted sum of the terms below it can take: W0 > UB_gap1 * W1 + UB_Mseg *
\* W2 + UB_D, W1 > UB_Mseg * W2 + UB_D and W2 > UB_D (W2 = 1 and no D term
\* unless the schedule has four segments), and no feasible assignment has a
\* 3-window excess above UB_gap1, a per-segment maximum above UB_Mseg or a
\* day imbalance above UB_D.
C23_WeightsDominate ==
    (Best /\ pc = "pass4") =>
        /\ W0 > UB_gap1 * W1 + UB_Mseg * W2 + UB_D
        /\ W1 > UB_Mseg * W2 + UB_D
        /\ IF Len(segments) = 4 THEN W2 > UB_D ELSE W2 = 1 /\ UB_D = 0
        /\ \A u \in FeasibleTerms :
               /\ u[1] <= UB_adj
               /\ u[2] <= UB_gap1
               /\ u[3] <= UB_Mseg
               /\ u[4] <= UB_D
               /\ W0 > u[2] * W1 + u[3] * W2 + u[4]
               /\ W1 > u[3] * W2 + u[4]
               /\ W2 > u[4]

\* C23 witness: a feasible assignment of pass 4 attains the bound of the
\* 3-window excess.
C23_Witness ==
    /\ Best
    /\ pc = "pass4"
    /\ UB_gap1 > 0
    /\ \E u \in FeasibleTerms : u[2] = UB_gap1

\* the 0/1 values of the x variables that stand for a slot -> swimmer map
XOf(a) == [t \in SlotIds |-> [s \in Range(swimmers) |-> IF a[t] = s THEN 1 ELSE 0]]

\* C24: the cut added after extracting a lineup is violated by that
\* lineup's assignment and by no other assignment with one swimmer per
\* slot, the lineup was feasible under the cuts added before it, and every
\* solve of an iteration starts with one cut for each lineup collected so
\* far.
C24_CutRemovesExactlyOne ==
    (TopK /\ pc = "topk_loop") =>
        /\ Len(cuts) = Len(ranked)
        /\ Len(solves) = Len(cuts) + 1
        /\ \A i \in 1..Len(cuts) : cuts[i] = ranked[i][2]
        /\ cuts # << >> =>
               /\ { a \in Maps : ~NoGoodCut(XOf(a), cuts[Len(cuts)]) }
                      = { MapOf(cuts[Len(cuts)]) }
               /\ \A i \in 1..(Len(cuts) - 1) :
                      NoGoodCut(XOf(MapOf(cuts[Len(cuts)])), cuts[i])

\* C24 witness: a second cut was added while other assignments remain
\* feasible.
C24_Witness ==
    /\ TopK
    /\ pc = "topk_loop"
    /\ Len(cuts) = 2
    /\ TopKModel2 # {}

\* (window start, swimmer) pairs in which the swimmer has at least two of
\* the three slots
ViolatingWindows(a) ==
    { q \in SlotIds \X Range(swimmers) :
        Window3(q[1]) /\ Window3Count(a, q[1], q[2]) >= 2 }

\* C25 as stated: the second-priority term of pass 4 is the number of
\* (swimmer, segment, 3-slot window) triples in which the swimmer occupies
\* two slots of the window, each such window counted once.
C25_OneBreakCountsWindows ==
    BestReturned => V_gap1(x4) = Cardinality(ViolatingWindows(MapOf(assignment)))

\* C25 amended: the second-priority term of pass 4 is the sum, over the
\* (swimmer, segment, 3-slot window) triples, of the number of slots of the
\* window the swimmer occupies beyond the first: a window with two of the
\* swimmer's slots counts 1, a window with three counts 2; it is the number
\* of violating windows when no swimmer has three slots in a row.
C25_OneBreakExcess ==
    BestReturned =>
        /\ V_gap1(x4) = Window3Excess(MapOf(assignment))
        /\ (\A q \in ViolatingWindows(MapOf(assignment)) :
                Window3Count(MapOf(assignment), q[1], q[2]) = 2)
               => V_gap1(x4) = Cardinality(ViolatingWindows(MapOf(assignment)))

\* C25 witness: the returned lineup has a swimmer in all three slots of a
\* window and another window with exactly two.
C25_Witness ==
    /\ BestReturned
    /\ \E q \in ViolatingWindows(MapOf(assignment)) :
           Window3Count(MapOf(assignment), q[1], q[2]) = 3
    /\ \E q \in ViolatingWindows(MapOf(assignment)) :
           Window3Count(MapOf(assignment), q[1], q[2]) = 2

\* the assignments a pass may hand over: the optimisers of its objective
Optimal1 == { x \in Model1 : TotalPoints(x) = best_points }

Optimal2 == { x \in Model2 : max_used \in UsedSums(x, S) }

Optimal3 == { x \in Model3 : min_max_total \in MtotValues(x) }

\* C26: once pass 1 of compute_best_lineup has an optimum, every optimal
\* assignment of a pass satisfies all constraints, locks and auxiliary
\* bounds of the next pass, so the models of passes 2, 3 and 4 are feasible
\* and, with a solver that proves optimality, none of them fails.
C26_LaterPassesFeasible ==
    Best =>
        /\ pc = "pass2" => Optimal1 # {} /\ Optimal1 \subseteq Model2
        /\ pc = "pass3" => Optimal2 # {} /\ Optimal2 \subseteq Model3
        /\ pc = "pass4" => Optimal3 # {} /\ Optimal3 \subseteq Model4
        /\ pc = "raised" => error = "First pass failed"

\* C26 witness: on a four-segment schedule an optimal assignment of pass 3
\* gives a swimmer a day imbalance equal to Mtot*, the bound of delta and D.
C26_Witness ==
    /\ Best
    /\ pc = "pass4"
    /\ Len(segments) = 4
    /\ \E x \in Optimal3 : \E s \in Range(swimmers) :
           D1(x, s) - D2(x, s) = min_max_total

\* C27: enumerate_top_k_by_congestion applies hard rest whatever it is
\* asked: its pass-1 model has the assignments of pass 1 of
\* compute_best_lineup with enforce_adjacent_rest = true, so its locked
\* points optimum is the points optimum (the total points of the lineup) of
\* that call, it fails in pass 1 exactly when that call does, and no lineup
\* it returns has a swimmer in two adjacent slots of a segment.
C27_TopKMatchesHardRestRun ==
    /\ (TopK /\ pc = "topk_loop" /\ ranked = << >>) =>
           /\ enforce_adjacent_rest
           /\ \A m1 \in { Model1 } :
                  /\ m1 # {}
                  /\ TopKModel1 = m1
                  /\ best_points = SetMax({ TotalPoints(x) : x \in m1 })
    /\ (TopK /\ pc = "raised" /\ error = "First pass failed") => Model1 = {}
    /\ TopKReturned =>
           \A i \in 1..Len(ranked) :
               /\ LineupPoints(ranked[i][2]) = best_points
               /\ MapRest(MapOf(ranked[i][2]))

\* C27 witness: lineups were returned although an assignment that breaks
\* only the rest constraint would score more than the locked optimum.
C27_Witness ==
    /\ TopKReturned
    /\ ranked # << >>
    /\ \E a \in Maps : /\ MapCap(a)
                       /\ MapNoDup(a)
                       /\ ~MapRest(a)
                       /\ MapPoints(a) > best_points

\* weight of window size L: its entry in congestion_weights, 1 without one
EntryOrOne(L) ==
    IF \E K \in DOMAIN congestion_weights : K = L THEN congestion_weights[L] ELSE 1

\* sum over the entries L of congestion_window_sizes with 1 < L of
\* weight(L) times the excess of the L-slot windows that fit in a segment
RECURSIVE RecomputedPenalty(_, _)
RecomputedPenalty(a, k) ==
    IF k = 0 THEN 0
    ELSE (IF congestion_window_sizes[k] > 1
          THEN EntryOrOne(congestion_window_sizes[k])
               * WindowExcess(a, congestion_window_sizes[k])
          ELSE 0)
         + RecomputedPenalty(a, k - 1)

\* C28: every penalty enumerate_top_k_by_congestion returns is the value
\* recomputed from its lineup: the sum, over segments, over each window
\* size L of congestion_window_sizes with 1 < L <= segment length, over each
\* window start and swimmer, of weight(L) * max(0, slots of the swimmer in
\* the window - 1), with weight(L) = congestion_weights[L], or 1 when L has
\* no entry.
C28_PenaltyRecomputed ==
    TopKReturned =>
        \A i \in 1..Len(ranked) :
            ranked[i][1] = RecomputedPenalty(MapOf(ranked[i][2]),
                                             Len(congestion_window_sizes))

\* C28 witness: a positive penalty was returned for window sizes that hold
\* a size without a weight entry, a size of 1 and a size longer than every
\* segment.
C28_Witness ==
    /\ TopKReturned
    /\ congestion_window_sizes = <<1, 3, 5>>
    /\ congestion_weights = (4 :> 3)
    /\ ranked # << >>
    /\ ranked[1][1] > 0

\* C29: a POST to /optimize whose configuration lookup, active-roster
\* check, availability check and roster-size check pass and for which
\* compute_best_lineup returns a lineup ends with a solution (total points
\* and one row list per segment) and an empty error list.
C29_OptimizeRendersSolution ==
    (route = "optimize.index" /\ method = "POST" /\ pc = "returned"
        /\ route_pc # "in_call") =>
        /\ route_pc = "done"
        /\ errors = << >>
        /\ solution # NoSolution
        /\ Len(solution.segments) = Len(route_segments)

\* rows of the table the logged-in user owns
OwnedIds == { db[i].id : i \in { j \in DOMAIN db : db[j].owner_id = current_user } }

\* C30: both views that run the optimizer build the roster only from
\* active swimmers of the selected gender owned by the logged-in user: no
\* row of another user is in the roster, in the points table or in the
\* returned lineup.
C30_RosterOwnedByUser ==
    (route # "none" /\ route_pc \notin {"lookup", "collect"}) =>
        /\ \A i \in DOMAIN route_swimmers :
               /\ route_swimmers[i].owner_id = current_user
               /\ route_swimmers[i].active
               /\ route_swimmers[i].gender = selected_gender
        /\ pc # "idle" =>
               /\ Range(swimmers) \subseteq OwnedIds
               /\ \A q \in DOMAIN points : q[1] \in OwnedIds
        /\ pc = "returned" =>
               \A k \in 1..Len(assignment) : assignment[k][4] \in OwnedIds

====
